---- MODULE Spec2Model ----
(***************************************************************************)
(* The scoring and decision-drafting pipeline of                           *)
(* autonomous_bi_agent_app.py: anomaly score, impact proxy, composite      *)
(* score, confidence band, top-N selection and the proposal drafting loop, *)
(* run once over an uploaded dataset under a parsed policy.                *)
(*                                                                         *)
(* Numbers.  A cell of the data frame is a record [t, n, d, s]: a number   *)
(* n/d (t = "num"), a missing value NaN (t = "nan") or a string            *)
(* (t = "str").  Arithmetic is exact rational arithmetic with NaN          *)
(* propagation, as numpy does it.  Metric cells and raw outlier scores are *)
(* counted in units of the source's epsilon 1e-9, in which the epsilon     *)
(* itself is 1; impact_proxy and the normalised anomaly score are ratios   *)
(* of such quantities, hence unit-free and exact.                          *)
(***************************************************************************)
EXTENDS Integers, Sequences, FiniteSets, TLC

VARIABLES pc, policy, SKLEARN_OK, upload, df, metric, top_n, top, proposals, csv, err, warning

vars == <<pc, policy, SKLEARN_OK, upload, df, metric, top_n, top, proposals, csv, err, warning>>

----------------------------------------------------------------------------
(* Values *)

Num(n, d) == [t |-> "num", n |-> n, d |-> d, s |-> ""]

NaN == [t |-> "nan", n |-> 0, d |-> 1, s |-> ""]

Str(x) == [t |-> "str", n |-> 0, d |-> 1, s |-> x]

\* A key that is absent from a mapping, and a key whose value is null (None).
Missing == [t |-> "missing", n |-> 0, d |-> 1, s |-> ""]

Null == [t |-> "null", n |-> 0, d |-> 1, s |-> ""]

IsNum(x) == x.t = "num"

IsNaN(x) == x.t = "nan"

Abs(i) == IF i < 0 THEN -i ELSE i

RECURSIVE GCD(_, _)
GCD(a, b) == IF b = 0 THEN a ELSE GCD(b, a % b)

\* The rational n/d in lowest terms with a positive denominator.
Norm(n, d) ==
  LET g == GCD(Abs(n), Abs(d))
      sg == IF d < 0 THEN -1 ELSE 1
  IN Num(sg * (n \div g), sg * (d \div g))

\* Float operations: a NaN operand gives NaN.
FAdd(a, b) == IF IsNaN(a) \/ IsNaN(b) THEN NaN ELSE Norm(a.n * b.d + b.n * a.d, a.d * b.d)

FSub(a, b) == IF IsNaN(a) \/ IsNaN(b) THEN NaN ELSE Norm(a.n * b.d - b.n * a.d, a.d * b.d)

FMul(a, b) == IF IsNaN(a) \/ IsNaN(b) THEN NaN ELSE Norm(a.n * b.n, a.d * b.d)

FDiv(a, b) == IF IsNaN(a) \/ IsNaN(b) THEN NaN ELSE Norm(a.n * b.d, a.d * b.n)

FAbs(a) == IF IsNaN(a) THEN NaN ELSE Num(Abs(a.n), a.d)

\* Float comparisons: any comparison with NaN is false, != with NaN is true.
FLt(a, b) == IsNum(a) /\ IsNum(b) /\ a.n * b.d < b.n * a.d

FGe(a, b) == IsNum(a) /\ IsNum(b) /\ a.n * b.d >= b.n * a.d

FNe(a, b) == ~(IsNum(a) /\ IsNum(b) /\ a.n * b.d = b.n * a.d)

\* The 1e-9 of lines 79, 91 and 92, in the unit of the model.
Eps == Num(1, 1)

Zero == Num(0, 1)

----------------------------------------------------------------------------
(* The data frame: a sequence of rows, each a function from column names to
   cells. *)

Columns(d) == DOMAIN d[1]

Column(d, c) == [i \in 1..Len(d) |-> d[i][c]]

\* df[c] = v: the column c is added, or overwritten when the frame has it.
WithColumn(d, c, v) ==
  [i \in 1..Len(d) |-> [k \in Columns(d) \cup {c} |-> IF k = c THEN v[i] ELSE d[i][k]]]

\* select_dtypes(include=['int64','float64']): the columns that hold numbers
\* or missing values only (a column with a string is of dtype object).
NumericCols(d) ==
  {c \in Columns(d) : \A i \in 1..Len(d) : d[i][c].t \in {"num", "nan"}}

RECURSIVE Insert(_, _)
Insert(x, s) ==
  IF s = <<>> THEN <<x>>
  ELSE IF FLt(x, Head(s)) THEN <<x>> \o s
  ELSE <<Head(s)>> \o Insert(x, Tail(s))

RECURSIVE SortAsc(_)
SortAsc(s) == IF s = <<>> THEN <<>> ELSE Insert(Head(s), SortAsc(Tail(s)))

\* Series.median(): the median of the present values, NaN when there is none.
Median(col) ==
  LET s == SortAsc(SelectSeq(col, IsNum))
      n == Len(s)
  IN IF n = 0 THEN NaN
     ELSE IF n % 2 = 1 THEN s[(n + 1) \div 2]
     ELSE FDiv(FAdd(s[n \div 2], s[n \div 2 + 1]), Num(2, 1))

SeqAbs(col) == [i \in 1..Len(col) |-> FAbs(col[i])]

\* df[numeric_cols].fillna(df[numeric_cols].median()): a missing cell takes
\* its column's median; where the median is NaN the cell stays missing.
FeatureMatrix(d) ==
  [i \in 1..Len(d) |->
     [c \in NumericCols(d) |->
        IF IsNaN(d[i][c]) THEN Median(Column(d, c)) ELSE d[i][c]]]

HasNaN(X) == \E i \in 1..Len(X) : \E c \in DOMAIN X[i] : IsNaN(X[i][c])

----------------------------------------------------------------------------
(* Bounds and inputs *)

\* len(df) >= 20 of line 72.
MinRows == 20

\* The longest of the small uploads.
MaxRows == 3

\* Values of a metric cell in the uploads.
MetricValues == {NaN, Num(0, 1), Num(1, 1), Num(2, 1)}

\* Raw outlier magnitudes -decision_function(X) can give a row.
RawLevels == {0, 3, 9}

\* Positions of the "How many insights?" slider (1..10 in the source).
TopNs == {1, 2}

ExtraColumns == {"none", "segment", "score"}

Row(v, extra) ==
  [c \in {"conversion_rate"} \cup (IF extra = "none" THEN {} ELSE {extra}) |->
     IF c = "conversion_rate" THEN v
     ELSE IF c = "segment" THEN Str("emea")
     ELSE Num(7, 1)]

Frame(vals, extra) == [i \in 1..Len(vals) |-> Row(vals[i], extra)]

SmallUploads ==
  {Frame(vals, extra) :
     vals \in UNION {[1..n -> MetricValues] : n \in 1..MaxRows},
     extra \in ExtraColumns}

\* Uploads that reach the isolation forest: MinRows rows, the first of value a
\* and the others of value b.
BigUploads ==
  {Frame([i \in 1..MinRows |-> IF i = 1 THEN ab[1] ELSE ab[2]], "none") :
     ab \in {<<Num(2, 1), Num(1, 1)>>, <<Num(1, 1), Num(1, 1)>>,
             <<Num(0, 1), Num(0, 1)>>, <<NaN, Num(1, 1)>>, <<NaN, NaN>>}}

\* An upload without any numeric column.
TextUpload == <<[c \in {"segment"} |-> Str("emea")]>>

\* The upload the policies are tried on: rows at, at and off the median.
MixedUpload == Frame(<<Num(1, 1), Num(1, 1), Num(2, 1)>>, "none")

----------------------------------------------------------------------------
(* The policy: the value yaml.safe_load gives for the policy text, flattened.
   shape is "map" for a mapping and "seq" for any other non-empty value; each
   section is "missing", "null" or "map"; each scalar option is Missing, Null,
   a number or a string; actions is missing, null or a list of action kinds. *)

Policy(rk, wi, wc, th, ac, hi, me, im, act, dis) ==
  [shape |-> "map", ranking |-> rk, weight_impact |-> wi, weight_confidence |-> wc,
   thresholds |-> th, anomaly_confidence |-> ac, high |-> hi, medium |-> me,
   impact_minimum |-> im, actions |-> act, disallow |-> dis]

NoActions == [t |-> "missing", items |-> <<>>]

NullActions == [t |-> "null", items |-> <<>>]

ActionList(items) == [t |-> "list", items |-> items]

\* policy = {}: what an empty policy text, or one that fails to parse, gives.
EmptyPolicy ==
  Policy("missing", Missing, Missing, "missing", "missing", Missing, Missing, Missing,
         NoActions, <<>>)

\* default_policy of lines 26-46, the text the policy editor starts with.
DefaultPolicy ==
  Policy("map", Num(7, 10), Num(3, 10), "map", "map", Num(4, 5), Num(3, 5), Num(1, 50),
         ActionList(<<"draft_alert", "draft_task">>),
         <<"delete_records", "send_external_email">>)

\* The default text with both ranking weights edited to 1.
UnitWeightsPolicy ==
  [DefaultPolicy EXCEPT !.weight_impact = Num(1, 1), !.weight_confidence = Num(1, 1)]

\* A policy text that is a YAML list: safe_load gives a list, not a mapping.
ListPolicy == [EmptyPolicy EXCEPT !.shape = "seq"]

RankingInputs ==
  {<<"missing", Missing, Missing>>, <<"null", Missing, Missing>>,
   <<"map", Num(1, 1), Num(1, 1)>>, <<"map", Num(-1, 1), Missing>>,
   <<"map", Num(0, 1), Num(0, 1)>>, <<"map", Null, Missing>>,
   <<"map", Missing, Str("high")>>}

ConfidenceInputs ==
  {<<"missing", Missing, Missing>>, <<"null", Missing, Missing>>,
   <<"map", Num(0, 1), Num(1, 2)>>, <<"map", Num(9, 10), Num(0, 1)>>,
   <<"map", Null, Missing>>, <<"map", Num(0, 1), Null>>}

ImpactMinimumInputs == {Missing, Num(0, 1), Num(1, 1), Null}

ThresholdInputs ==
  {<<"missing", <<"missing", Missing, Missing>>, Missing>>,
   <<"null", <<"missing", Missing, Missing>>, Missing>>}
  \cup {<<"map", a, im>> : a \in ConfidenceInputs, im \in ImpactMinimumInputs}

ActionInputs ==
  {NoActions, NullActions, ActionList(<<>>), ActionList(<<"draft_alert">>),
   ActionList(<<"draft_task", "draft_alert">>), ActionList(<<"send_external_email">>)}

DisallowInputs == {<<>>, <<"draft_task">>, <<"draft_alert", "draft_task">>}

\* Policies that differ in the ranking section only.
RankingPolicies ==
  {Policy(r[1], r[2], r[3], "missing", "missing", Missing, Missing, Missing, NoActions, <<>>) :
     r \in RankingInputs}

\* Policies that differ in thresholds, actions and constraints.disallow.
DraftingPolicies ==
  {Policy("missing", Missing, Missing, th[1], th[2][1], th[2][2], th[2][3], th[3], a, dis) :
     th \in ThresholdInputs, a \in ActionInputs, dis \in DisallowInputs}

\* policy.get('ranking', {}): AttributeError when the policy is no mapping.
\* .get('weight_impact', 0.7) on it: AttributeError when ranking is null.
RankingRaises(p) == p.shape # "map" \/ p.ranking = "null"

w_impact(p) == IF p.weight_impact = Missing THEN Num(7, 10) ELSE p.weight_impact

w_conf(p) == IF p.weight_confidence = Missing THEN Num(3, 10) ELSE p.weight_confidence

\* thr.get('anomaly_confidence', {}), ac.get('high', 0.8), thr.get(...):
\* AttributeError when thresholds, or anomaly_confidence, is null.
ThresholdsRaise(p) == p.thresholds = "null" \/ p.anomaly_confidence = "null"

high(p) == IF p.high = Missing THEN Num(4, 5) ELSE p.high

med(p) == IF p.medium = Missing THEN Num(3, 5) ELSE p.medium

impact_min(p) == IF p.impact_minimum = Missing THEN Num(1, 50) ELSE p.impact_minimum

\* policy.get('actions', ['draft_alert', 'draft_task'])
actions(p) ==
  IF p.actions.t = "missing" THEN ActionList(<<"draft_alert", "draft_task">>) ELSE p.actions

----------------------------------------------------------------------------
(* The stages, as functions of the frame and the policy *)

SeqMin(s) == CHOOSE x \in {s[i] : i \in 1..Len(s)} : \A j \in 1..Len(s) : x <= s[j]

SeqMax(s) == CHOOSE x \in {s[i] : i \in 1..Len(s)} : \A j \in 1..Len(s) : x >= s[j]

\* (scores - scores.min()) / (scores.max() - scores.min() + 1e-9)
Normalise(scores) ==
  [i \in 1..Len(scores) |->
     FDiv(Num(scores[i] - SeqMin(scores), 1),
          FAdd(Num(SeqMax(scores) - SeqMin(scores), 1), Eps))]

\* df['anomaly_score'] = 0.0 of the degraded branch.
SkippedAnomaly == Zero

\* A variant of NoMetricImpact that assigns 1.0: the no-metric properties must
\* tell it from the source's 0.0.
NoMetricImpactOne == Num(1, 1)

\* df['impact_proxy'] = 0.0 when the metric is no column of the frame.
NoMetricImpact == Zero

\* base of line 91: the median, or median(|x|) + 1e-9 when the median is 0.
Baseline(col) ==
  IF FNe(Median(col), Zero) THEN Median(col) ELSE FAdd(Median(SeqAbs(col)), Eps)

\* Lines 89-96.  The median of a column that is not numeric raises, and the
\* except branch gives 0.0.
ImpactProxy(d, m) ==
  IF m \in Columns(d)
  THEN IF m \in NumericCols(d)
       THEN LET col == Column(d, m)
                base == Baseline(col)
            IN [i \in 1..Len(d) |-> FDiv(FSub(col[i], base), FAdd(FAbs(base), Eps))]
       ELSE [i \in 1..Len(d) |-> Zero]
  ELSE [i \in 1..Len(d) |-> NoMetricImpact]

\* Line 101: TypeError for a weight that is no number, KeyError for a frame
\* without the anomaly_score column.
ScoreRaises(d, p) ==
  ~IsNum(w_impact(p)) \/ ~IsNum(w_conf(p)) \/ "anomaly_score" \notin Columns(d)

Score(d, p) ==
  [i \in 1..Len(d) |->
     FAdd(FMul(w_impact(p), FAbs(d[i]["impact_proxy"])),
          FMul(w_conf(p), d[i]["anomaly_score"]))]

\* band(x) of lines 109-112.
band(x, p) ==
  IF FGe(x, high(p)) THEN Str("High")
  ELSE IF FGe(x, med(p)) THEN Str("Medium")
  ELSE Str("Low")

\* x >= high is a TypeError when high is no number, and x >= med is one when
\* it is reached and med is no number.
BandRaises(x, p) ==
  ~IsNum(high(p)) \/ (~FGe(x, high(p)) /\ ~IsNum(med(p)))

\* The rows whose score is a number, and the others in their row order.
Scored(d) == {i \in 1..Len(d) : IsNum(d[i]["score"])}

RECURSIVE Ascending(_)
Ascending(S) ==
  IF S = {} THEN <<>>
  ELSE LET x == CHOOSE y \in S : \A z \in S : y <= z
       IN <<x>> \o Ascending(S \ {x})

Min2(a, b) == IF a < b THEN a ELSE b

\* df.sort_values('score', ascending=False).head(k).  The default sort kind
\* is quicksort, which is not stable: rows of equal score come in any order.
\* Rows whose score is NaN come last (na_position='last'), in row order.
IsTop(d, k, t) ==
  LET n == Min2(k, Len(d))
      m == Min2(n, Cardinality(Scored(d)))
      rest == Ascending((1..Len(d)) \ Scored(d))
  IN /\ Len(t) = n
     /\ \A j \in 1..m : t[j] \in Scored(d)
     /\ \A j, l \in 1..m : j < l => t[j] # t[l] /\ FGe(d[t[j]]["score"], d[t[l]]["score"])
     /\ \A j \in 1..m : \A i \in Scored(d) \ {t[l] : l \in 1..m} :
          FGe(d[t[j]]["score"], d[i]["score"])
     /\ \A j \in (m + 1)..n : t[j] = rest[j - m]

TopChoices(d, k) == {t \in [1..Min2(k, Len(d)) -> 1..Len(d)] : IsTop(d, k, t)}

Contains(s, x) == \E i \in 1..Len(s) : s[i] = x

\* A variant of IsActionable that gates on the composite score: the gate
\* properties must tell it from the source's gate on impact_proxy.
IsActionableByScore(row, p) == FGe(row["score"], impact_min(p))

\* abs(row['impact_proxy']) >= impact_min of line 133.
IsActionable(row, p) == FGe(FAbs(row["impact_proxy"]), impact_min(p))

\* Lines 131-139: the kinds of the proposals drafted for a row.
DraftProposals(row, p) ==
  IF IsActionable(row, p)
  THEN (IF Contains(actions(p).items, "draft_alert") THEN <<"draft_alert">> ELSE <<>>)
       \o (IF Contains(actions(p).items, "draft_task") THEN <<"draft_task">> ELSE <<>>)
  ELSE <<"observation">>

\* TypeError: the gate compares with an impact_min that is no number, or
\* 'draft_alert' in actions is evaluated on a null actions.
DraftRaises(row, p) ==
  ~IsNum(impact_min(p)) \/ (IsActionable(row, p) /\ actions(p).t = "null")

----------------------------------------------------------------------------
(* The run *)

\* The metric the caller selects.  The guards of lines 89 and 125 provide for
\* a metric that is no column of the frame; "revenue" stands for one.
MetricOptions(d) == NumericCols(d) \cup {"revenue"}

\* A run starts with the policy parsed (lines 48-53), the optional import
\* done (lines 13-18) and a CSV uploaded (line 59).  The policies that vary
\* a section are run on MixedUpload, the uploads of every shape under the
\* default policy text and one edit of its weights.
Init ==
  /\ pc = "upload"
  /\ \/ /\ policy \in DraftingPolicies \cup RankingPolicies \cup {ListPolicy}
        /\ upload = MixedUpload
     \/ /\ policy \in {DefaultPolicy, UnitWeightsPolicy}
        /\ upload \in SmallUploads \cup BigUploads \cup {TextUpload}
  /\ SKLEARN_OK \in BOOLEAN
  /\ df = upload
  /\ metric = ""
  /\ top_n = 0
  /\ top = <<>>
  /\ proposals = <<>>
  /\ csv = <<>>
  /\ err = ""
  /\ warning = ""

Raise(e) ==
  /\ pc' = "raised"
  /\ err' = e

\* Lines 63-65: without a numeric column the run warns (st.warning) and does
\* nothing more.
NoNumericColumns ==
  /\ pc = "upload"
  /\ NumericCols(df) = {}
  /\ pc' = "skipped"
  /\ warning' = "No numeric columns found"
  /\ UNCHANGED <<policy, SKLEARN_OK, upload, df, metric, top_n, top, proposals, csv, err>>

SelectMetric ==
  /\ pc = "upload"
  /\ NumericCols(df) # {}
  /\ \E m \in MetricOptions(df) : metric' = m
  /\ pc' = "anomaly"
  /\ UNCHANGED <<warning, policy, SKLEARN_OK, upload, df, top_n, top, proposals, csv, err>>

\* Lines 72-81: the isolation forest scores the rows; equal rows of X get
\* equal raw scores.
AnomalyFit ==
  /\ pc = "anomaly"
  /\ SKLEARN_OK /\ Len(df) >= MinRows
  /\ LET X == FeatureMatrix(df)
     IN \E f \in [{X[i] : i \in 1..Len(X)} -> RawLevels] :
          df' = WithColumn(df, "anomaly_score", Normalise([i \in 1..Len(X) |-> f[X[i]]]))
  /\ pc' = "impact"
  /\ UNCHANGED <<warning, policy, SKLEARN_OK, upload, metric, top_n, top, proposals, csv, err>>

\* Lines 82-83: fit or decision_function raises (here: X still holds a missing
\* value, which a build of the library may reject); the handler warns and
\* assigns nothing.
AnomalyFitFails ==
  /\ pc = "anomaly"
  /\ SKLEARN_OK /\ Len(df) >= MinRows
  /\ HasNaN(FeatureMatrix(df))
  /\ warning' = "Anomaly detection skipped"
  /\ pc' = "impact"
  /\ UNCHANGED <<policy, SKLEARN_OK, upload, df, metric, top_n, top, proposals, csv, err>>

\* Lines 84-86.
AnomalySkipped ==
  /\ pc = "anomaly"
  /\ ~(SKLEARN_OK /\ Len(df) >= MinRows)
  /\ df' = WithColumn(df, "anomaly_score", [i \in 1..Len(df) |-> SkippedAnomaly])
  /\ pc' = "impact"
  /\ UNCHANGED <<warning, policy, SKLEARN_OK, upload, metric, top_n, top, proposals, csv, err>>

\* Lines 89-96.
Impact ==
  /\ pc = "impact"
  /\ df' = WithColumn(df, "impact_proxy", ImpactProxy(df, metric))
  /\ pc' = "rank"
  /\ UNCHANGED <<warning, policy, SKLEARN_OK, upload, metric, top_n, top, proposals, csv, err>>

\* Lines 99-101.
Rank ==
  /\ pc = "rank"
  /\ IF RankingRaises(policy)
     THEN Raise("AttributeError") /\ UNCHANGED df
     ELSE IF ScoreRaises(df, policy)
     THEN Raise(IF IsNum(w_impact(policy)) /\ "anomaly_score" \notin Columns(df)
                THEN "KeyError" ELSE "TypeError") /\ UNCHANGED df
     ELSE df' = WithColumn(df, "score", Score(df, policy)) /\ pc' = "band" /\ UNCHANGED err
  /\ UNCHANGED <<warning, policy, SKLEARN_OK, upload, metric, top_n, top, proposals, csv>>

\* Lines 104-113.
Band ==
  /\ pc = "band"
  /\ IF ThresholdsRaise(policy)
     THEN Raise("AttributeError") /\ UNCHANGED df
     ELSE IF \E i \in 1..Len(df) : BandRaises(df[i]["anomaly_score"], policy)
     THEN Raise("TypeError") /\ UNCHANGED df
     ELSE /\ df' = WithColumn(df, "confidence_band",
                              [i \in 1..Len(df) |-> band(df[i]["anomaly_score"], policy)])
          /\ pc' = "top"
          /\ UNCHANGED err
  /\ UNCHANGED <<warning, policy, SKLEARN_OK, upload, metric, top_n, top, proposals, csv>>

\* Lines 117-118.
SelectTop ==
  /\ pc = "top"
  /\ \E k \in TopNs : \E t \in TopChoices(df, k) :
       /\ top_n' = k
       /\ top' = t
  /\ pc' = "draft"
  /\ UNCHANGED <<warning, policy, SKLEARN_OK, upload, df, metric, proposals, csv, err>>

\* Lines 120-143: one pass of the loop, for the next selected row.
DraftRow ==
  /\ pc = "draft"
  /\ Len(proposals) < Len(top)
  /\ LET row == df[top[Len(proposals) + 1]]
     IN IF DraftRaises(row, policy)
        THEN Raise("TypeError") /\ UNCHANGED proposals
        ELSE /\ proposals' = Append(proposals, DraftProposals(row, policy))
             /\ UNCHANGED <<pc, err>>
  /\ UNCHANGED <<warning, policy, SKLEARN_OK, upload, df, metric, top_n, top, csv>>

\* Lines 145-148.
Export ==
  /\ pc = "draft"
  /\ Len(proposals) = Len(top)
  /\ csv' = df
  /\ pc' = "done"
  /\ UNCHANGED <<warning, policy, SKLEARN_OK, upload, df, metric, top_n, top, proposals, err>>

Next ==
  \/ NoNumericColumns
  \/ SelectMetric
  \/ AnomalyFit
  \/ AnomalyFitFails
  \/ AnomalySkipped
  \/ Impact
  \/ Rank
  \/ Band
  \/ SelectTop
  \/ DraftRow
  \/ Export

Spec == Init /\ [][Next]_vars

----------------------------------------------------------------------------
(* Properties *)

\* The selected rows that the drafting loop has been through.
Drafted == 1..Len(proposals)

DraftedRow(j) == df[top[j]]

ObservationOnly == <<"observation">>

\* The action kinds the drafter has a template for, and the effective actions
\* of a policy: the requested ones, less the disallowed and the unknown.
KnownKinds == {"draft_alert", "draft_task"}

EffectiveActions(p) ==
  {a \in KnownKinds : Contains(actions(p).items, a) /\ ~Contains(p.disallow, a)}

\* C1: no proposal drafted for a selected row has a kind that the policy's
\* constraints.disallow lists.
C1_NoDisallowedKind ==
  \A j \in Drafted : \A q \in 1..Len(proposals[j]) :
    ~Contains(policy.disallow, proposals[j][q])

\* C2: a selected row with |impact_proxy| < impact_minimum gets exactly one
\* proposal, the observation-only one, whatever its anomaly score, its band
\* and the policy's actions.
C2_BelowMinimumObservationOnly ==
  \A j \in Drafted :
    FLt(FAbs(DraftedRow(j)["impact_proxy"]), impact_min(policy))
      => proposals[j] = ObservationOnly

\* A row below the minimum but of band High, under a policy that requests an
\* action, has been drafted.
C2_Witness ==
  \E j \in Drafted :
    /\ FLt(FAbs(DraftedRow(j)["impact_proxy"]), impact_min(policy))
    /\ DraftedRow(j)["confidence_band"] = Str("High")
    /\ Contains(actions(policy).items, "draft_alert")
    /\ proposals[j] = ObservationOnly

\* C3: a selected row with |impact_proxy| >= impact_minimum, under a policy
\* whose effective actions are empty, gets exactly the observation-only
\* proposal; every drafted row has at least one proposal.
C3_EmptyActionsObservationOnly ==
  /\ \A j \in Drafted :
       IsActionable(DraftedRow(j), policy) /\ EffectiveActions(policy) = {}
         => proposals[j] = ObservationOnly
  /\ \A j \in Drafted : proposals[j] # <<>>

\* C4: for an upload with a numeric column and any policy value, the run does
\* not raise, and at its end every row of the frame has a score and a band and
\* every selected row has a proposal.
C4_RunCompletes ==
  /\ pc # "raised"
  /\ pc = "done" =>
       /\ {"score", "confidence_band"} \subseteq Columns(df)
       /\ Len(proposals) = Len(top)
       /\ \A j \in Drafted : proposals[j] # <<>>

\* C5: in degraded mode (no outlier detection, or fewer than MinRows rows)
\* every anomaly_score is exactly 0.0, and under a policy whose medium
\* threshold is > 0 every confidence_band is Low.
C5_DegradedZeroAndLow ==
  ~(SKLEARN_OK /\ Len(df) >= MinRows) =>
    /\ "anomaly_score" \in Columns(df) =>
         \A i \in 1..Len(df) : df[i]["anomaly_score"] = Zero
    /\ "confidence_band" \in Columns(df) /\ FLt(Zero, med(policy)) =>
         \A i \in 1..Len(df) : df[i]["confidence_band"] = Str("Low")

\* The selected metric is no column of the upload.
MetricAbsent == pc \notin {"upload", "skipped"} /\ metric \notin Columns(upload)

NoMetricObservationOnly ==
  /\ "impact_proxy" \in Columns(df) => \A i \in 1..Len(df) : df[i]["impact_proxy"] = Zero
  /\ \A j \in Drafted : proposals[j] = ObservationOnly

IsStableTop(d, k, t) ==
  /\ IsTop(d, k, t)
  /\ \A j \in 1..Len(t) : \A i \in Scored(d) \ {t[l] : l \in 1..j} :
       t[j] \in Scored(d) /\ d[i]["score"] = d[t[j]]["score"] => t[j] < i

\* C7: the selected list is the first min(K, n) rows by descending score,
\* rows of equal score in their row order.
C7_TopIsStable ==
  pc \in {"draft", "done"} => IsStableTop(df, top_n, top)

\* C8: when fitting or scoring fails on the preferred path, the failure is
\* caught, every anomaly_score is defined and 0.0, and the run goes on to its
\* end.
C8_FitFailureDegrades ==
  warning = "Anomaly detection skipped" =>
    /\ "anomaly_score" \in Columns(df)
    /\ \A i \in 1..Len(df) : df[i]["anomaly_score"] = Zero
    /\ pc # "raised"

\* C9: every anomaly_score, impact_proxy and score the run assigns is a
\* number, never NaN.
C9_ScoresAreNumbers ==
  pc \notin {"upload", "skipped"} =>
    \A c \in {"anomaly_score", "impact_proxy", "score"} \cap Columns(df) :
      \A i \in 1..Len(df) : IsNum(df[i][c])

DerivedColumns == {"anomaly_score", "impact_proxy", "score", "confidence_band"}

\* C10: the run keeps every cell of every original column, the row count and
\* the row order, and the exported frame is the upload plus the four derived
\* columns.
C10_AppendOnly ==
  /\ Len(df) = Len(upload)
  /\ \A i \in 1..Len(upload) : \A c \in Columns(upload) : df[i][c] = upload[i][c]
  /\ pc = "done" =>
       /\ csv = df
       /\ Columns(csv) = Columns(upload) \cup DerivedColumns

====
